---- MODULE Spec2Model ----
(***************************************************************************)
(* Model of DocModel (explore_step_file.py): the walk of an XCAF document  *)
(* that fills part_dict and label_dict.  The geometry kernel (shape tool,  *)
(* colour tool, STEP reader) is represented by the document value it       *)
(* exposes: free shapes, label kinds, components, sub-shapes, locations    *)
(* and the two colour tables.  The verbose flag only drives printing and   *)
(* the counter cnt, and output_shapes is a return value no table depends   *)
(* on; neither is part of the state below.                                 *)
(***************************************************************************)
EXTENDS Integers, Sequences, FiniteSets, TLC

\* Number of walks (parse_doc runs, direct or through load_stp) explored.
MaxWalks == 3

None == "None"

EmptyDict == [k \in {} |-> k]

\* d[k] = v of a Python dict
Put(d, k, v) == [x \in DOMAIN d \cup {k} |-> IF x = k THEN v ELSE d[x]]

-----------------------------------------------------------------------------
(* Kernel values *)

\* Colours are RGB triples in tenths; Quantity_Color(0.5, 0.5, 0.5)
Gray == <<5, 5, 5>>
Red == <<10, 0, 0>>
Blue == <<0, 0, 10>>
Green == <<0, 10, 0>>

\* The three colour-application scopes passed to the colour tool: 0, 1, 2
Scopes == {0, 1, 2}

\* TopLoc_Location: a transformation, here a permutation of three axes
Identity == <<1, 2, 3>>
RotZ == <<2, 3, 1>>
MirX == <<2, 1, 3>>

\* a.Multiplied(b): the composition a * b (b is applied first)
Multiplied(a, b) == [i \in 1..3 |-> a[b[i]]]

\* BRepBuilderAPI_Transform(shape, loc.Transformation()).Shape()
Positioned(shape, loc) == [shape |-> shape, loc |-> loc]

-----------------------------------------------------------------------------
(* Documents the kernel can hand over *)

Lab(kind, name, comps, subs, shape) ==
    [kind |-> kind, name |-> name, comps |-> comps, subs |-> subs, shape |-> shape]

Cmp(entry, name, isRef, ref, loc) ==
    [entry |-> entry, name |-> name, isRef |-> isRef, ref |-> ref, loc |-> loc]

Sub(entry, name, shape) == [entry |-> entry, name |-> name, shape |-> shape]

\* create_doc: one empty assembly named "Top" at entry 0:1:1:1
TopDoc ==
    [free |-> <<"0:1:1:1">>,
     labels |-> ("0:1:1:1" :> Lab("assembly", "Top", <<>>, <<>>, None)),
     labColor |-> EmptyDict,
     inst0 |-> EmptyDict]

\* TDocStd_Document("Step-doc") into which nothing was transferred
StepDoc ==
    [free |-> <<>>, labels |-> EmptyDict, labColor |-> EmptyDict, inst0 |-> EmptyDict]

\* one root assembly with two instances of one prototype part
TwoInstDoc ==
    [free |-> <<"0:1:1:1">>,
     labels |->
        ("0:1:1:1" :> Lab("assembly", "Pair",
                          <<Cmp("0:1:1:1:1", "bolt_1", TRUE, "0:1:1:2", RotZ),
                            Cmp("0:1:1:1:2", "bolt_2", TRUE, "0:1:1:2", MirX)>>,
                          <<>>, None))
        @@ ("0:1:1:2" :> Lab("simple", "bolt", <<>>, <<>>, "shp2")),
     labColor |-> EmptyDict,
     inst0 |-> EmptyDict]

\* two free shapes; the first is an assembly holding a sub-assembly, a
\* component that is no reference, and a second use of the part "plate";
\* the sub-assembly also refers to a label that is neither assembly nor
\* simple shape
NestedDoc ==
    [free |-> <<"0:1:1:1", "0:1:1:5">>,
     labels |->
        ("0:1:1:1" :> Lab("assembly", "Chassis",
                          <<Cmp("0:1:1:1:1", "frame_1", TRUE, "0:1:1:2", RotZ),
                            Cmp("0:1:1:1:2", "loose", FALSE, None, Identity),
                            Cmp("0:1:1:1:3", "plate_2", TRUE, "0:1:1:3", MirX)>>,
                          <<>>, None))
        @@ ("0:1:1:2" :> Lab("assembly", "Frame",
                          <<Cmp("0:1:1:2:1", "plate_1", TRUE, "0:1:1:3", MirX),
                            Cmp("0:1:1:2:2", "ghost_1", TRUE, "0:1:1:4", RotZ)>>,
                          <<>>, None))
        @@ ("0:1:1:3" :> Lab("simple", "Plate", <<>>, <<>>, "shp3"))
        @@ ("0:1:1:4" :> Lab("other", "Ghost", <<>>, <<>>, None))
        @@ ("0:1:1:5" :> Lab("simple", "Root-part", <<>>, <<>>, "shp5")),
     labColor |-> (<<"0:1:1:5", 2>> :> Red),
     inst0 |-> (<<"shp3", 1>> :> Blue)]

\* colour settings a STEP file may carry for one shape (instance level) or
\* one label (label level): scope -> colour, for the scopes that have one
InstColorOpts == {EmptyDict, (2 :> Green)}

LabColorOpts == {EmptyDict, (1 :> Red) @@ (2 :> Blue)}

SubInstColorOpts == {EmptyDict, (1 :> Green)}

SubLabColorOpts == {EmptyDict, (0 :> Blue)}

Keyed(k, opt) == [p \in {<<k, s>> : s \in DOMAIN opt} |-> opt[p[2]]]

\* one root assembly with two instances of a part that declares one
\* sub-shape; pi/pl are the part's instance and label colours, si/sl the
\* sub-shape's
ColorDoc(pi, pl, si, sl) ==
    [free |-> <<"0:1:1:1">>,
     labels |->
        ("0:1:1:1" :> Lab("assembly", "Lamp",
                          <<Cmp("0:1:1:1:1", "shade_1", TRUE, "0:1:1:2", Identity),
                            Cmp("0:1:1:1:2", "shade_2", TRUE, "0:1:1:2", RotZ)>>,
                          <<>>, None))
        @@ ("0:1:1:2" :> Lab("simple", "Shade", <<>>,
                          <<Sub("0:1:1:2:1", "rim", "shp2f")>>, "shp2")),
     labColor |-> Keyed("0:1:1:2", pl) @@ Keyed("0:1:1:2:1", sl),
     inst0 |-> Keyed("shp2", pi) @@ Keyed("shp2f", si)]

ColorDocs ==
    {ColorDoc(pi, pl, si, sl) : pi \in InstColorOpts, pl \in LabColorOpts,
                                si \in SubInstColorOpts, sl \in SubLabColorOpts}

\* file names handed to load_stp; "" is a cancelled file dialog
FileNames == {"", "missing.step", "pair.step", "chassis.step", "lamp.step"}

\* step_reader.ReadFile(filename)
ReadFile(filename) == IF filename = "missing.step" THEN "RetFail" ELSE "RetDone"

\* the documents step_reader.Transfer(doc) can produce from a file
Transfer(filename) ==
    CASE filename = "pair.step" -> {TwoInstDoc}
      [] filename = "chassis.step" -> {NestedDoc}
      [] filename = "lamp.step" -> ColorDocs
      [] OTHER -> {StepDoc}

-----------------------------------------------------------------------------
(* Shape tool and colour tool queries *)

IsAssembly(d, lab) == d.labels[lab].kind = "assembly"

IsSimpleShape(d, lab) == d.labels[lab].kind = "simple"

\* color_tool.GetInstanceColor(shape, s, c) / color_tool.GetColor(lab, s, c)
HasColor(tab, key, s) == <<key, s>> \in DOMAIN tab

\* Get(.., 0, c) or Get(.., 1, c) or Get(.., 2, c)
AnyColor(tab, key) == \E s \in Scopes : HasColor(tab, key, s)

\* the colour left in c by the first successful query of the or-chain
FirstColor(tab, key) ==
    IF HasColor(tab, key, 0) THEN tab[<<key, 0>>]
    ELSE IF HasColor(tab, key, 1) THEN tab[<<key, 1>>]
    ELSE tab[<<key, 2>>]

\* SetInstanceColor(shape, 0, c); SetInstanceColor(shape, 1, c);
\* SetInstanceColor(shape, 2, c)
SetInstanceColors(ic, shape, c) ==
    [k \in DOMAIN ic \cup {<<shape, s>> : s \in Scopes} |->
        IF k[1] = shape THEN c ELSE ic[k]]

-----------------------------------------------------------------------------
(* Pure parts of parse_doc *)

Digit(d) ==
    CASE d = 0 -> "0" [] d = 1 -> "1" [] d = 2 -> "2" [] d = 3 -> "3"
      [] d = 4 -> "4" [] d = 5 -> "5" [] d = 6 -> "6" [] d = 7 -> "7"
      [] d = 8 -> "8" [] d = 9 -> "9"

RECURSIVE Str(_)
\* str(value) of a non-negative integer
Str(n) == IF n < 10 THEN Digit(n) ELSE Str(n \div 10) \o Digit(n % 10)

\* variant: the serial of a known entry is not incremented
NextSerialStuck(sd, entry) == IF entry \in DOMAIN sd THEN sd[entry] ELSE 0

\* _get_uid_from_entry: the serial number the call stores in _share_dict
NextSerial(sd, entry) == (IF entry \in DOMAIN sd THEN sd[entry] ELSE -1) + 1

\* _get_uid_from_entry: the uid returned
UidFromEntry(sd, entry) == entry \o "." \o Str(NextSerial(sd, entry))

\* variant: the new serial is not stored
ShareAfterForgotten(sd, entry) == sd

\* _get_uid_from_entry: _share_dict after the call
ShareAfter(sd, entry) == Put(sd, entry, NextSerial(sd, entry))

RECURSIVE TrimParents(_, _)
\* while len(self._parent_uid_stack) > lvl+2: self._parent_uid_stack.pop()
TrimParents(stk, level) ==
    IF Len(stk) > level + 2
    THEN TrimParents(SubSeq(stk, 1, Len(stk) - 1), level)
    ELSE stk

RECURSIVE ComposeFromSwapped(_, _, _)
\* variant: loc = l.Multiplied(loc)
ComposeFromSwapped(loc, ls, i) ==
    IF i > Len(ls) THEN loc
    ELSE ComposeFromSwapped(Multiplied(ls[i], loc), ls, i + 1)

RECURSIVE ComposeFrom(_, _, _)
\* for l in locs: loc = loc.Multiplied(l), from position i on
ComposeFrom(loc, ls, i) ==
    IF i > Len(ls) THEN loc ELSE ComposeFrom(Multiplied(loc, ls[i]), ls, i + 1)

\* loc = TopLoc_Location(); for l in locs: loc = loc.Multiplied(l)
ComposedLoc(ls) == ComposeFrom(Identity, ls, 1)

\* the colour c stored in the Part Record of label lab
ShapeColor(d, ic, lab) ==
    LET shape == d.labels[lab].shape IN
    IF AnyColor(ic, shape) THEN FirstColor(ic, shape)
    ELSE IF AnyColor(d.labColor, lab) THEN FirstColor(d.labColor, lab)
    ELSE Gray

\* the instance colour table after the colour of label lab is resolved
InstAfterShape(d, ic, lab) ==
    LET shape == d.labels[lab].shape IN
    IF AnyColor(ic, shape) \/ AnyColor(d.labColor, lab)
    THEN SetInstanceColors(ic, shape, ShapeColor(d, ic, lab))
    ELSE ic

\* one iteration of the sub-shape loop of a label with shape `shape`
InstAfterSub(d, ic, shape, sub) ==
    IF AnyColor(ic, sub.shape)
    THEN SetInstanceColors(ic, sub.shape, FirstColor(ic, sub.shape))
    ELSE IF AnyColor(d.labColor, sub.entry)
    THEN SetInstanceColors(ic, shape, FirstColor(d.labColor, sub.entry))
    ELSE ic

RECURSIVE InstAfterSubs(_, _, _, _, _)
\* for i in range(l_subss.Length()): ..., from position i on
InstAfterSubs(d, ic, shape, subs, i) ==
    IF i > Len(subs) THEN ic
    ELSE InstAfterSubs(d, InstAfterSub(d, ic, shape, subs[i]), shape, subs, i + 1)

\* the Label Record of an assembly
AssyRecord(entry, name, parent_uid) ==
    [entry |-> entry, name |-> name, parent_uid |-> parent_uid, is_assy |-> TRUE]

\* the Label Record of a simple shape
SimpleRecord(entry, name, parent_uid) ==
    [entry |-> entry, name |-> name, parent_uid |-> parent_uid,
     ref_entry |-> None, is_assy |-> FALSE]

\* the Part Record
PartRecord(shape_disp, name, c) == [shape |-> shape_disp, name |-> name, color |-> c]

-----------------------------------------------------------------------------
(* State *)

VARIABLES
    doc,               \* self.doc, as the shape tool presents it
    instColor,         \* instance colours of self.doc's colour tool
    part_dict,         \* self.part_dict
    label_dict,        \* self.label_dict
    share_dict,        \* self._share_dict
    parent_uid_stack,  \* self._parent_uid_stack
    lvl,               \* parse_doc's lvl
    locs,              \* parse_doc's locs
    frames,            \* active calls of _get_sub_shapes, outermost first
    root_i,            \* index i of the loop of _get_shapes (1-based)
    pc,                \* "idle": no call is running; "scan": in _get_shapes
    op,                \* the method called last on the DocModel
    walks,             \* number of parse_doc runs started
    issued,            \* every uid _get_uid_from_entry returned, in call order
    walk0              \* len(issued) and instColor when the current walk began

vars == <<doc, instColor, part_dict, label_dict, share_dict, parent_uid_stack,
          lvl, locs, frames, root_i, pc, op, walks, issued, walk0>>

Frame(lab) == [lab |-> lab, uid |-> None, i |-> 0, pc |-> "enter"]

Top == frames[Len(frames)]

Pop(s) == SubSeq(s, 1, Len(s) - 1)

SetTop(f) == [frames EXCEPT ![Len(frames)] = f]

Call(name, filename, status) == [name |-> name, filename |-> filename, status |-> status]

\* DocModel.__init__
Init ==
    /\ doc = TopDoc
    /\ instColor = TopDoc.inst0
    /\ part_dict = EmptyDict
    /\ label_dict = EmptyDict
    /\ share_dict = EmptyDict
    /\ parent_uid_stack = <<None>>
    /\ lvl = 0
    /\ locs = <<>>
    /\ frames = <<>>
    /\ root_i = 0
    /\ pc = "idle"
    /\ op = Call("__init__", None, None)
    /\ walks = 0
    /\ issued = <<>>
    /\ walk0 = [n |-> 0, inst |-> EmptyDict]

\* variant: parse_doc starts from empty tables
BeginWalkCleared(ic) ==
    /\ lvl' = 0
    /\ locs' = <<>>
    /\ root_i' = 1
    /\ pc' = "scan"
    /\ walks' = walks + 1
    /\ walk0' = [n |-> Len(issued), inst |-> ic]
    /\ part_dict' = EmptyDict
    /\ label_dict' = EmptyDict
    /\ UNCHANGED <<share_dict, parent_uid_stack, frames, issued>>

\* parse_doc up to the call of _get_shapes; ic are the instance colours of
\* the document it walks
BeginWalk(ic) ==
    /\ lvl' = 0
    /\ locs' = <<>>
    /\ root_i' = 1
    /\ pc' = "scan"
    /\ walks' = walks + 1
    /\ walk0' = [n |-> Len(issued), inst |-> ic]
    /\ UNCHANGED <<part_dict, label_dict, share_dict, parent_uid_stack, frames, issued>>

\* parse_doc called on the DocModel
ParseDoc ==
    /\ pc = "idle"
    /\ walks < MaxWalks
    /\ op' = Call("parse_doc", None, None)
    /\ BeginWalk(instColor)
    /\ UNCHANGED <<doc, instColor>>

\* load_stp with an empty filename
LoadCancelled ==
    /\ pc = "idle"
    /\ op' = Call("load_stp", "", None)
    /\ UNCHANGED <<doc, instColor, part_dict, label_dict, share_dict,
                   parent_uid_stack, lvl, locs, frames, root_i, pc, walks,
                   issued, walk0>>

\* the document load_stp assigns to self.doc
LoadedDocs(filename) ==
    IF ReadFile(filename) = "RetDone" THEN Transfer(filename) ELSE {StepDoc}

\* variant: self.doc is assigned only when the reader's status is done
LoadStpKeepsDoc ==
    /\ pc = "idle"
    /\ walks < MaxWalks
    /\ \E filename \in FileNames \ {""} :
          /\ op' = Call("load_stp", filename, ReadFile(filename))
          /\ IF ReadFile(filename) = "RetDone"
             THEN \E d \in Transfer(filename) :
                     /\ doc' = d
                     /\ instColor' = d.inst0
                     /\ BeginWalk(d.inst0)
             ELSE /\ UNCHANGED <<doc, instColor>>
                  /\ BeginWalk(instColor)

\* load_stp with a filename, up to the call of _get_shapes in parse_doc
LoadStp ==
    /\ pc = "idle"
    /\ walks < MaxWalks
    /\ \E filename \in FileNames \ {""} :
          /\ op' = Call("load_stp", filename, ReadFile(filename))
          /\ \E d \in LoadedDocs(filename) :
                /\ doc' = d
                /\ instColor' = d.inst0
                /\ BeginWalk(d.inst0)

-----------------------------------------------------------------------------
(* _get_shapes and _get_sub_shapes, one step per label visit, loop          *)
(* iteration and return                                                     *)

\* _get_shapes: the loop calls _get_sub_shapes(root_item, None)
ScanRoot ==
    /\ pc = "scan"
    /\ frames = <<>>
    /\ root_i <= Len(doc.free)
    /\ frames' = <<Frame(doc.free[root_i])>>
    /\ UNCHANGED <<doc, instColor, part_dict, label_dict, share_dict,
                   parent_uid_stack, lvl, locs, root_i, pc, op, walks, issued, walk0>>

\* _get_shapes: the loop is over; parse_doc (and load_stp) return
ScanDone ==
    /\ pc = "scan"
    /\ frames = <<>>
    /\ root_i > Len(doc.free)
    /\ pc' = "idle"
    /\ UNCHANGED <<doc, instColor, part_dict, label_dict, share_dict,
                   parent_uid_stack, lvl, locs, frames, root_i, op, walks, issued, walk0>>

Issue(entry, site) ==
    Append(issued, [entry |-> entry, uid |-> UidFromEntry(share_dict, entry), site |-> site])

\* _get_sub_shapes on an assembly, up to the loop over its components
VisitAssembly ==
    /\ frames # <<>>
    /\ Top.pc = "enter"
    /\ IsAssembly(doc, Top.lab)
    /\ LET text_entry == Top.lab
           uid == UidFromEntry(share_dict, text_entry)
           name == doc.labels[Top.lab].name
           parent_uid == parent_uid_stack[Len(parent_uid_stack)]
       IN /\ share_dict' = ShareAfter(share_dict, text_entry)
          /\ issued' = Issue(text_entry, "label")
          /\ label_dict' = Put(label_dict, uid, AssyRecord(text_entry, name, parent_uid))
          /\ parent_uid_stack' = Append(parent_uid_stack, uid)
          /\ frames' = SetTop([Top EXCEPT !.uid = uid, !.i = 1, !.pc = "loop"])
    /\ UNCHANGED <<doc, instColor, part_dict, lvl, locs, root_i, pc, op, walks, walk0>>

\* _get_sub_shapes on a simple shape, to its end
VisitSimple ==
    /\ frames # <<>>
    /\ Top.pc = "enter"
    /\ ~IsAssembly(doc, Top.lab)
    /\ IsSimpleShape(doc, Top.lab)
    /\ LET text_entry == Top.lab
           uid == UidFromEntry(share_dict, text_entry)
           name == doc.labels[Top.lab].name
           parent_uid == parent_uid_stack[Len(parent_uid_stack)]
           shape == doc.labels[Top.lab].shape
           loc == ComposedLoc(locs)
           c == ShapeColor(doc, instColor, Top.lab)
           shape_disp == Positioned(shape, loc)
       IN /\ share_dict' = ShareAfter(share_dict, text_entry)
          /\ issued' = Issue(text_entry, "label")
          /\ label_dict' = Put(label_dict, uid, SimpleRecord(text_entry, name, parent_uid))
          /\ part_dict' = Put(part_dict, uid, PartRecord(shape_disp, name, c))
          /\ instColor' = InstAfterSubs(doc, InstAfterShape(doc, instColor, Top.lab),
                                        shape, doc.labels[Top.lab].subs, 1)
          /\ frames' = SetTop([Top EXCEPT !.uid = uid, !.pc = "done"])
    /\ UNCHANGED <<doc, parent_uid_stack, lvl, locs, root_i, pc, op, walks, walk0>>

\* variant: the second branch is an else, so any label that is no assembly
\* gets a Label Record
VisitOtherRecorded ==
    /\ frames # <<>>
    /\ Top.pc = "enter"
    /\ ~IsAssembly(doc, Top.lab)
    /\ ~IsSimpleShape(doc, Top.lab)
    /\ share_dict' = ShareAfter(share_dict, Top.lab)
    /\ issued' = Issue(Top.lab, "label")
    /\ label_dict' = Put(label_dict, UidFromEntry(share_dict, Top.lab),
                         SimpleRecord(Top.lab, doc.labels[Top.lab].name,
                                      parent_uid_stack[Len(parent_uid_stack)]))
    /\ frames' = SetTop([Top EXCEPT !.uid = UidFromEntry(share_dict, Top.lab), !.pc = "done"])
    /\ UNCHANGED <<doc, instColor, part_dict, parent_uid_stack, lvl,
                   locs, root_i, pc, op, walks, walk0>>

\* _get_sub_shapes on a label that is neither assembly nor simple shape
VisitOther ==
    /\ frames # <<>>
    /\ Top.pc = "enter"
    /\ ~IsAssembly(doc, Top.lab)
    /\ ~IsSimpleShape(doc, Top.lab)
    /\ share_dict' = ShareAfter(share_dict, Top.lab)
    /\ issued' = Issue(Top.lab, "label")
    /\ frames' = SetTop([Top EXCEPT !.uid = UidFromEntry(share_dict, Top.lab), !.pc = "done"])
    /\ UNCHANGED <<doc, instColor, part_dict, label_dict, parent_uid_stack, lvl,
                   locs, root_i, pc, op, walks, walk0>>

\* the component the loop of the innermost assembly call is at
Component == doc.labels[Top.lab].comps[Top.i]

InLoop ==
    /\ frames # <<>>
    /\ Top.pc = "loop"
    /\ Top.i <= Len(doc.labels[Top.lab].comps)

\* loop body for a reference component, up to the recursive call
EnterComponent ==
    /\ InLoop
    /\ Component.isRef
    /\ share_dict' = ShareAfter(share_dict, Component.entry)
    /\ issued' = Issue(Component.entry, "component")
    /\ locs' = Append(locs, Component.loc)
    /\ lvl' = lvl + 1
    /\ frames' = Append(frames, Frame(Component.ref))
    /\ UNCHANGED <<doc, instColor, part_dict, label_dict, parent_uid_stack,
                   root_i, pc, op, walks, walk0>>

\* loop body for a component that is no reference
SkipComponent ==
    /\ InLoop
    /\ ~Component.isRef
    /\ frames' = SetTop([Top EXCEPT !.i = Top.i + 1])
    /\ UNCHANGED <<doc, instColor, part_dict, label_dict, share_dict,
                   parent_uid_stack, lvl, locs, root_i, pc, op, walks, issued, walk0>>

\* the innermost call of _get_sub_shapes has reached its end
Finished ==
    /\ frames # <<>>
    /\ \/ Top.pc = "done"
       \/ Top.pc = "loop" /\ Top.i > Len(doc.labels[Top.lab].comps)

\* a recursive call returns: the rest of the caller's loop body
Return ==
    /\ Finished
    /\ Len(frames) >= 2
    /\ lvl' = lvl - 1
    /\ locs' = Pop(locs)
    /\ parent_uid_stack' = TrimParents(parent_uid_stack, lvl - 1)
    /\ LET caller == frames[Len(frames) - 1]
       IN frames' = [Pop(frames) EXCEPT ![Len(frames) - 1] = [caller EXCEPT !.i = caller.i + 1]]
    /\ UNCHANGED <<doc, instColor, part_dict, label_dict, share_dict, root_i,
                   pc, op, walks, issued, walk0>>

\* the call made by _get_shapes returns: next free shape
RootReturn ==
    /\ Finished
    /\ Len(frames) = 1
    /\ frames' = <<>>
    /\ root_i' = root_i + 1
    /\ UNCHANGED <<doc, instColor, part_dict, label_dict, share_dict,
                   parent_uid_stack, lvl, locs, pc, op, walks, issued, walk0>>

Next ==
    \/ ParseDoc
    \/ LoadCancelled
    \/ LoadStp
    \/ ScanRoot
    \/ ScanDone
    \/ VisitAssembly
    \/ VisitSimple
    \/ VisitOther
    \/ EnterComponent
    \/ SkipComponent
    \/ Return
    \/ RootReturn

Spec == Init /\ [][Next]_vars

-----------------------------------------------------------------------------
(* Properties *)

\* positions in issued of the uids returned during the current walk
WalkIssues == (walk0.n + 1)..Len(issued)

\* the uids of the current walk under which a Label Record is stored:
\* those of visited labels that are assemblies or simple shapes
RecordedIssues(kinds) ==
    {k \in WalkIssues : /\ issued[k].site = "label"
                        /\ doc.labels[issued[k].entry].kind \in kinds}

Uids(ks) == {issued[k].uid : k \in ks}

\* C1: every free shape visited by the root scan gets a Label Record whose
\* parent_uid is None.
RootsHaveNoParent ==
    (frames # <<>> /\ frames[1].uid \in DOMAIN label_dict)
        => label_dict[frames[1].uid].parent_uid = None

\* C2: after a walk, part_dict and label_dict hold exactly the records of
\* that walk.
TablesRebuilt ==
    (pc = "idle" /\ walks > 0)
        => /\ DOMAIN label_dict = Uids(RecordedIssues({"assembly", "simple"}))
           /\ DOMAIN part_dict = Uids(RecordedIssues({"simple"}))

\* C3: the uids returned by _get_uid_from_entry are pairwise distinct over
\* all walks, and the k-th uid returned for an entry carries serial k-1.
UidsNeverRepeat ==
    /\ \A i, j \in DOMAIN issued : i # j => issued[i].uid # issued[j].uid
    /\ \A k \in DOMAIN issued :
          LET earlier == {j \in 1..(k - 1) : issued[j].entry = issued[k].entry}
          IN issued[k].uid = issued[k].entry \o "." \o Str(Cardinality(earlier))

\* an entry was given a uid in an earlier walk and again in the current one
UidsNeverRepeatWitness ==
    \E i, j \in DOMAIN issued :
        /\ i <= walk0.n
        /\ j > walk0.n
        /\ issued[i].entry = issued[j].entry
        /\ issued[j].uid = issued[j].entry \o ".2"

\* C4: every Label Record with a parent_uid other than None has a parent_uid
\* that is a key of label_dict, in every state during and after the walks.
NoDanglingParents ==
    \A u \in DOMAIN label_dict :
        label_dict[u].parent_uid # None => label_dict[u].parent_uid \in DOMAIN label_dict

\* in a second or later walk, a record with a parent has just been stored
NoDanglingParentsWitness ==
    /\ walks >= 2
    /\ frames # <<>>
    /\ Top.uid \in DOMAIN label_dict
    /\ label_dict[Top.uid].parent_uid # None

\* C5 as stated: after the first walk, len(label_dict) is the number of
\* uids the allocator returned.
LabelCountIsUidCount ==
    (walks = 1 /\ pc = "idle")
        => Cardinality(DOMAIN label_dict) = Cardinality(Uids(DOMAIN issued))

\* C5 amended: after the first walk, len(label_dict) is the number of uids
\* the allocator returned for visited labels that are assemblies or simple
\* shapes; the uids returned for reference components and for visited labels
\* of another kind have no Label Record.
LabelCountIsVisitUidCount ==
    (walks = 1 /\ pc = "idle")
        => /\ Cardinality(DOMAIN label_dict)
                = Cardinality(RecordedIssues({"assembly", "simple"}))
           /\ \A k \in DOMAIN issued \ RecordedIssues({"assembly", "simple"}) :
                 issued[k].uid \notin DOMAIN label_dict

\* the first walk is over and has returned uids of all three sorts
LabelCountWitness ==
    /\ walks = 1
    /\ pc = "idle"
    /\ \E k \in DOMAIN issued : issued[k].site = "component"
    /\ \E k \in DOMAIN issued :
          issued[k].site = "label" /\ doc.labels[issued[k].entry].kind = "other"
    /\ Cardinality(DOMAIN label_dict) >= 3

\* the local transforms of the references through which the innermost call
\* was reached, outermost first
PathLocs ==
    [k \in 1..(Len(frames) - 1) |-> doc.labels[frames[k].lab].comps[frames[k].i].loc]

RECURSIVE Product(_)
Product(ts) == IF ts = <<>> THEN Identity ELSE Multiplied(Head(ts), Product(Tail(ts)))

\* a simple shape has just been visited by the innermost call
LeafVisited ==
    /\ frames # <<>>
    /\ Top.pc = "done"
    /\ IsSimpleShape(doc, Top.lab)

\* C6: the shape of the Part Record of a leaf reached through N references
\* is its raw shape moved by Identity * t1 * ... * tN, the local transforms
\* of exactly those N references, outermost first.
LeafTransformIsPathProduct ==
    LeafVisited
        => /\ Len(locs) = Len(frames) - 1
           /\ part_dict[Top.uid].shape
                = Positioned(doc.labels[Top.lab].shape, Product(PathLocs))

\* a leaf two references deep, and a leaf visited after a finished sibling
\* branch, in a second or later walk
LeafTransformWitness ==
    /\ LeafVisited
    /\ walks >= 2
    /\ \/ Len(frames) = 3
       \/ Len(frames) = 2 /\ frames[1].i = 3
    /\ part_dict[Top.uid].shape.loc # Identity

\* the labels visited as simple shapes in the current walk, with their uids
LeafIssues == RecordedIssues({"simple"})

OnlyLabelColor(lab) ==
    /\ ~AnyColor(walk0.inst, doc.labels[lab].shape)
    /\ AnyColor(doc.labColor, lab)

NoColorAnywhere(lab) ==
    /\ ~AnyColor(walk0.inst, doc.labels[lab].shape)
    /\ ~AnyColor(doc.labColor, lab)

\* C7: a simple shape that has only a label-level colour when the walk
\* begins gets that colour in its Part Record, and after the walk the
\* instance colour of its shape is that colour at each scope.
LabelColorWrittenBack ==
    \A k \in LeafIssues :
        LET lab == issued[k].entry
            shape == doc.labels[lab].shape
            c == FirstColor(doc.labColor, lab)
        IN (OnlyLabelColor(lab) /\ issued[k].uid \in DOMAIN part_dict)
              => /\ part_dict[issued[k].uid].color = c
                 /\ pc = "idle" =>
                       \A s \in Scopes : /\ HasColor(instColor, shape, s)
                                         /\ instColor[<<shape, s>>] = c

\* C8: a simple shape without any colour when the walk begins gets the
\* default gray in its Part Record, and the walk sets no instance colour for
\* its shape.
UncoloredStaysUnset ==
    \A k \in LeafIssues :
        LET lab == issued[k].entry
            shape == doc.labels[lab].shape
        IN (NoColorAnywhere(lab) /\ issued[k].uid \in DOMAIN part_dict)
              => /\ part_dict[issued[k].uid].color = Gray
                 /\ ~AnyColor(instColor, shape)

RECURSIVE VisitsFrom(_, _, _)
RECURSIVE VisitsOfComps(_, _, _, _)
\* number of visits of labels of the given kinds when label lab is walked
VisitsFrom(d, lab, kinds) ==
    (IF d.labels[lab].kind \in kinds THEN 1 ELSE 0)
    + (IF d.labels[lab].kind = "assembly"
       THEN VisitsOfComps(d, d.labels[lab].comps, 1, kinds) ELSE 0)

VisitsOfComps(d, comps, i, kinds) ==
    IF i > Len(comps) THEN 0
    ELSE (IF comps[i].isRef THEN VisitsFrom(d, comps[i].ref, kinds) ELSE 0)
         + VisitsOfComps(d, comps, i + 1, kinds)

RECURSIVE VisitsOfRoots(_, _, _)
VisitsOfRoots(d, i, kinds) ==
    IF i > Len(d.free) THEN 0
    ELSE VisitsFrom(d, d.free[i], kinds) + VisitsOfRoots(d, i + 1, kinds)

\* C9: the first walk stores one Part Record per visit of a simple shape and
\* one Label Record per visit of an assembly or simple shape; a root
\* assembly with two references to one simple shape gives 2 Part Records and
\* 3 Label Records.
OneRecordPerVisit ==
    (walks = 1 /\ pc = "idle")
        => /\ Cardinality(DOMAIN part_dict) = VisitsOfRoots(doc, 1, {"simple"})
           /\ Cardinality(DOMAIN label_dict)
                = VisitsOfRoots(doc, 1, {"assembly", "simple"})
           /\ doc = TwoInstDoc => /\ Cardinality(DOMAIN part_dict) = 2
                                  /\ Cardinality(DOMAIN label_dict) = 3

\* the first walk, of the two-instance document, is over
OneRecordPerVisitWitness ==
    /\ walks = 1
    /\ pc = "idle"
    /\ doc = TwoInstDoc
    /\ \E u, v \in DOMAIN part_dict :
          u # v /\ part_dict[u].shape.shape = part_dict[v].shape.shape

FailedLoad == op.name = "load_stp" /\ op.status # "RetDone"

ChildrenRecordTheirAssembly ==
    \A k \in 2..Len(frames) :
        frames[k].uid \in DOMAIN label_dict
            => label_dict[frames[k].uid].parent_uid = frames[k - 1].uid

====
